---- MODULE Spec2Model ----
(***************************************************************************)
(* Model of the repipe command of GKM-CLI (src/src/commands/repipe.rs).    *)
(*                                                                         *)
(* RepipeCommand::execute is a straight-line sequence of steps; every      *)
(* external interaction (a subprocess, a file read or write, a read of the *)
(* environment) is one action whose outcome is chosen among the outcomes   *)
(* the operating system can produce.  The fields of RepipeCommand are the  *)
(* variables options, settings_file, meta, target and pipeline; config is  *)
(* the local of execute; the remaining variables are the environment the   *)
(* command runs in and the record of what it did to it.                    *)
(***************************************************************************)
EXTENDS Integers, Sequences, FiniteSets, TLC

(***************************************************************************)
(* Bounds of the model.                                                    *)
(***************************************************************************)
NumDocs    == 1   \* distinct merged documents / file contents
NumTargets == 2   \* distinct target names
NumNames   == 2   \* distinct pipeline names
NumUrls    == 1   \* distinct API URLs
NumTeams   == 1   \* distinct team names
MaxSelectorLen == 2   \* characters of a CONCOURSE_TARGET of SettingsSpec

(***************************************************************************)
(* Option<T>: None is the empty sequence, Some(v) the one-element one.     *)
(***************************************************************************)
None        == <<>>
Some(v)     == <<v>>
IsSome(o)   == o # <<>>
Unwrap(o)   == o[1]
Opt(S)      == {None} \cup {Some(v) : v \in S}
\* Option::or_else / Option::or
OrElse(a, b) == IF IsSome(a) THEN a ELSE b
\* Option::unwrap_or
UnwrapOr(a, d) == IF IsSome(a) THEN Unwrap(a) ELSE d

\* u8 option levels: "Number of times the flag is specified (0-2)"
MaxLevel == 2

(***************************************************************************)
(* Strings are sequences of characters.  The values of the environment,    *)
(* of the metadata block and of the credentials file are drawn from pools. *)
(* A target and a name are any String, the empty one included.             *)
(***************************************************************************)
TargetPool == << <<"t">>, <<>>, <<"a", "/", "b">>, <<"a", " ", "b">> >>
NamePool   == << <<"p">>, <<>>, <<"n">>, <<"q">> >>
UrlPool    == << <<"h">>, <<"i">>, <<"j">>, <<"k">> >>
TeamPool   == << <<"m">>, <<"o">>, <<"v">>, <<"w">> >>

Docs    == 1..NumDocs
Targets == {TargetPool[i] : i \in 1..NumTargets}
Names   == {NamePool[i] : i \in 1..NumNames}
Urls    == {UrlPool[i] : i \in 1..NumUrls}
Teams   == {TeamPool[i] : i \in 1..NumTeams}
\* a URL / team of the credentials file that no metadata block declares
OtherUrl  == <<"x">>
OtherTeam == <<"y">>

\* struct RepipeOptions
RepipeOptions ==
    [validate     : 0..MaxLevel,
     dry_run      : 0..MaxLevel,
     pause        : BOOLEAN,
     expose       : Opt(BOOLEAN),
     open_browser : 0..MaxLevel,
     yes          : BOOLEAN,
     fly_path     : Opt({<<"f">>})]

\* RepipeOptions::default(), the options of the interactive entry point
DefaultOptions ==
    [validate |-> 0, dry_run |-> 0, pause |-> FALSE, expose |-> None,
     open_browser |-> 0, yes |-> FALSE, fly_path |-> None]

\* struct PipelineMeta
PipelineMeta ==
    [target   : Opt(Targets),
     url      : Opt(Urls),
     team     : Opt(Teams),
     pipeline : Opt(Names),
     name     : Opt(Names),
     exposed  : Opt(BOOLEAN)]

\* an entry of the credentials file: flyrc_json["targets"][target]
FlyrcEntry ==
    [api  : Opt(Urls \cup {OtherUrl}),
     team : Opt(Teams \cup {OtherTeam})]

\* String::new()
EmptyString == <<>>

\* str::replace(from, to) for one-character patterns
Replace(s, from, to) ==
    [i \in 1..Len(s) |-> IF s[i] = from THEN to ELSE s[i]]

\* the candidate file name of find_settings_file
TargetSettingsFile(t) ==
    <<"settings-">> \o Replace(Replace(t, "/", "-"), " ", "_") \o <<".yml">>

DefaultSettingsFile == <<"settings.yml">>

VARIABLES
    options,        \* RepipeCommand.options
    base_dir,       \* RepipeCommand.base_dir
    settings_file,  \* RepipeCommand.settings_file
    meta,           \* RepipeCommand.meta : Option<PipelineMeta>
    target,         \* RepipeCommand.target
    pipeline,       \* RepipeCommand.pipeline
    config,         \* the local `config` of execute : Option<document>
    flyrc,          \* the local `flyrc_json` of validate_target
    pc,             \* position of execute
    err,            \* the error execute returned, None while running / on Ok
    envTarget,      \* env::var("CONCOURSE_TARGET").ok()
    metaBlock,      \* the meta block the pipeline and settings files declare
    tmpDeploy,      \* content of <tempdir>/.deploy.yml
    written,        \* documents written to <tempdir>/.deploy.yml, in order
    present,        \* the files that were there when the step in progress
                    \* looked for its input (the ci directories, the tools,
                    \* the settings files, pipeline/base.yml, the
                    \* credentials files); None outside these steps
    spruce,         \* how the `spruce merge` process ended, None before it
    steps,          \* steps of execute started so far, in order
    modes,          \* dispatch modes entered so far, in order
    scripts,        \* build scripts merge_pipeline_config has run, in order,
                    \* until it invokes spruce
    calls,          \* remote-orchestrator (fly) processes spawned, in order
    stdout,         \* what the command printed with println!
    browser         \* browser-open attempts so far

vars == <<options, base_dir, settings_file, meta, target, pipeline, config,
          flyrc, pc,
          err, envTarget, metaBlock, tmpDeploy, written, present, spruce,
          steps, modes, scripts, calls, stdout, browser>>

\* the fields of RepipeCommand and the local of execute
cmdVars == <<options, base_dir, settings_file, meta, target, pipeline, config,
             flyrc>>
\* the environment
envVars == <<envTarget, metaBlock, tmpDeploy, written>>
\* what the command did
logVars == <<modes, scripts, spruce, calls, stdout, browser>>

\* The options and the metadata blocks the runs are started with: every
\* options value with a metadata block that declares everything, and every
\* metadata block with the options of each mode.
CoreOptions ==
    {o \in RepipeOptions :
        /\ o.validate <= 1 /\ o.dry_run <= 1 /\ o.open_browser = 0
        /\ ~o.pause /\ ~o.yes /\ o.expose = None /\ o.fly_path = None}

CoreMetas ==
    {m \in PipelineMeta :
        /\ m.target = Some(TargetPool[1]) /\ m.pipeline = Some(NamePool[1])
        /\ m.name = None
        /\ m.url = Some(UrlPool[1]) /\ m.team = Some(TeamPool[1])}

\* env::current_dir()
CurrentDir == "."

\* the directories around the working directory that can be the ci
\* directory: the working directory itself (its name is "ci"), ./<kit>/ci,
\* ./ci and ../ci
CiDirs == {"self", "kit", "child", "parent"}

\* the command is started in the ci directory; every other layout is tried
\* with the default options and a metadata block that declares everything
CoreDirs == {"self"}

\* RepipeCommand::new (and the environment the command is started in)
Init ==
    /\ options \in RepipeOptions
    /\ metaBlock \in PipelineMeta
    /\ options \in CoreOptions \/ metaBlock \in CoreMetas
    /\ base_dir = CurrentDir
    /\ settings_file = DefaultSettingsFile
    /\ meta = None
    /\ target = EmptyString
    /\ pipeline = EmptyString
    /\ config = None
    /\ flyrc = None
    /\ pc = "check_requirements"
    /\ err = None
    /\ envTarget \in Opt(Targets)
    /\ tmpDeploy = None
    /\ written = <<>>
    /\ present \in {Some(dirs) : dirs \in SUBSET CiDirs}
    /\ present = Some(CoreDirs) \/ (options = DefaultOptions
                                   /\ metaBlock \in CoreMetas)
    /\ spruce = None
    /\ steps = <<>>
    /\ modes = <<>>
    /\ scripts = <<>>
    /\ calls = <<>>
    /\ stdout = <<>>
    /\ browser = <<>>

\* `?` on an Err: execute returns the error, nothing else runs
Bail(e) ==
    /\ pc' = "failed"
    /\ err' = Some(e)

\* the step went through: execute goes on with the next one
Goto(p) ==
    /\ pc' = p
    /\ err' = None

\* a check_command that takes every outcome of `which` for a success
check_command_Lenient(found) == None

\* RepipeCommand::check_command: `which cmd` exits with 0 or not
check_command(found) ==
    IF found THEN None ELSE Some("RequiredToolMissing")

\* the fly check of check_requirements
check_fly(fly_path, flyState) ==
    IF IsSome(fly_path)
    THEN CASE flyState = "missing" -> Some("io")
           [] flyState = "notexec" -> Some("RequiredToolMissing")
           [] OTHER -> None
    ELSE check_command(flyState = "ok")

\* the tools check_requirements looks for, in its order
RequiredTools == <<"which", "spruce", "jq", "fly">>

\* the tools check_requirements found before it returned: it stops at the
\* first one that is missing (for fly: missing or not executable)
ToolsFound(usable) ==
    {RequiredTools[i] : i \in {j \in 1..Len(RequiredTools) :
                                 \A k \in 1..j : RequiredTools[k] \in usable}}

\* check_requirements: the error for the tools found, None when all are
CheckTools(fly_path, usable, flyState) ==
    IF "which" \notin usable THEN Some("RequiredToolMissing")
    ELSE OrElse(check_command("spruce" \in usable),
         OrElse(check_command("jq" \in usable),
                check_fly(fly_path, flyState)))

\* RepipeCommand::check_requirements
CheckRequirements ==
    /\ pc = "check_requirements"
    /\ steps' = Append(steps, "check_requirements")
    /\ \E tools \in SUBSET {"which", "spruce", "jq"},
          flyState \in {"ok", "missing", "notexec"} :
          LET usable == tools \cup (IF flyState = "ok" THEN {"fly"} ELSE {})
              r == CheckTools(options.fly_path, usable, flyState)
          IN /\ present' = Some(ToolsFound(usable))
             /\ IF IsSome(r) THEN Bail(Unwrap(r))
                ELSE Goto("find_settings_file")
    /\ UNCHANGED <<cmdVars, envVars, logVars>>

\* the settings files find_settings_file looks for: settings.yml, and the
\* target-specific one when CONCOURSE_TARGET is set
SettingsFiles(env) ==
    IF IsSome(env) THEN {"target", "default"} ELSE {"default"}

\* the candidate file name of determine_settings_file (ci.rs)
CiTargetSettingsFile(t) ==
    <<"settings-">> \o Replace(Replace(t, "/", "-"), " ", "-") \o <<".yml">>

\* determine_settings_file (ci.rs): Some(file), or None when it bails
determine_settings_file(env, files) ==
    IF IsSome(env) /\ "target" \in files
    THEN Some(CiTargetSettingsFile(Unwrap(env)))
    ELSE IF "default" \in files THEN Some(DefaultSettingsFile)
    ELSE None

\* find_settings_file with settings.yml preferred when it is there
FindSettingsFile_DefaultFirst ==
    /\ pc = "find_settings_file"
    /\ steps' = Append(steps, "find_settings_file")
    /\ \E files \in SUBSET SettingsFiles(envTarget) :
          LET targetFileExists == "target" \in files
              defaultExists == "default" \in files
              chosen == IF IsSome(envTarget) /\ targetFileExists
                           /\ ~defaultExists
                        THEN TargetSettingsFile(Unwrap(envTarget))
                        ELSE settings_file
              exists == IF chosen = DefaultSettingsFile
                        THEN defaultExists ELSE targetFileExists
          IN /\ present' = Some(files)
             /\ settings_file' = chosen
             /\ IF exists THEN Goto("build_test_jobs")
                ELSE Bail("SettingsNotFound")
    /\ UNCHANGED <<options, base_dir, meta, target, pipeline, config, flyrc,
                   envVars, logVars>>

\* find_settings_file with its error logged instead of returned
FindSettingsFile_Unchecked ==
    /\ pc = "find_settings_file"
    /\ steps' = Append(steps, "find_settings_file")
    /\ \E files \in SUBSET SettingsFiles(envTarget) :
          LET targetFileExists == "target" \in files
              defaultExists == "default" \in files
              chosen == IF IsSome(envTarget) /\ targetFileExists
                        THEN TargetSettingsFile(Unwrap(envTarget))
                        ELSE settings_file
              exists == IF chosen = DefaultSettingsFile
                        THEN defaultExists ELSE targetFileExists
          IN /\ present' = Some(files)
             /\ settings_file' = chosen
             /\ pc' = "build_test_jobs"
             /\ err' = IF exists THEN None ELSE Some("SettingsNotFound")
    /\ UNCHANGED <<options, base_dir, meta, target, pipeline, config, flyrc,
                   envVars, logVars>>

\* RepipeCommand::find_settings_file
FindSettingsFile ==
    /\ pc = "find_settings_file"
    /\ steps' = Append(steps, "find_settings_file")
    /\ \E files \in SUBSET SettingsFiles(envTarget) :
          LET targetFileExists == "target" \in files
              defaultExists == "default" \in files
              chosen == IF IsSome(envTarget) /\ targetFileExists
                        THEN TargetSettingsFile(Unwrap(envTarget))
                        ELSE settings_file
              exists == IF chosen = DefaultSettingsFile
                        THEN defaultExists ELSE targetFileExists
          IN /\ present' = Some(files)
             /\ settings_file' = chosen
             /\ IF exists THEN Goto("build_test_jobs")
                ELSE Bail("SettingsNotFound")
    /\ UNCHANGED <<options, base_dir, meta, target, pipeline, config, flyrc,
                   envVars, logVars>>

\* temp_dir.path().join(".deploy.yml"), and the ".deploy.yml" of execute,
\* which is relative to the working directory
TmpDeployPath == "tmp/.deploy.yml"
CwdDeployPath == ".deploy.yml"

\* a TempDir whose drop leaves the directory and its files in place
DropTempDir_Keep(file) == file

\* Drop of tempfile::TempDir: the directory and its files are removed
DropTempDir(file) == None

\* one optional build script of merge_pipeline_config:
\* `if Path::new(script).exists() { Command::new(script).status()?; }`
\* the file is absent, or it is there and not executable (the spawn fails),
\* or it runs and exits with a zero or a non-zero status
ScriptStates == {"absent", "notexec", "ok", "nonzero"}

\* a build script whose non-zero exit status is turned into an error
RunScript_CheckStatus(name, next) ==
    \E st \in ScriptStates :
        /\ scripts' = IF st = "absent" THEN scripts
                      ELSE Append(scripts, [name |-> name, status |-> st])
        /\ IF st = "notexec" THEN Bail("io")
           ELSE IF st = "nonzero" THEN Bail("ScriptFailed")
           ELSE Goto(next)

\* `if Path::new(script).exists() { Command::new(script).status()?; }`
RunScript(name, next) ==
    \E st \in ScriptStates :
        /\ scripts' = IF st = "absent" THEN scripts
                      ELSE Append(scripts, [name |-> name, status |-> st])
        /\ IF st = "notexec" THEN Bail("io") ELSE Goto(next)

\* merge_pipeline_config that starts with the build-upstream-jobs script
BuildTestJobs_UpstreamFirst ==
    /\ pc = "build_test_jobs"
    /\ steps' = Append(steps, "build_scripts")
    /\ \/ /\ Bail("io")
          /\ UNCHANGED scripts
       \/ RunScript("build-upstream-jobs", "build_upstream_jobs")
    /\ present' = None
    /\ UNCHANGED <<cmdVars, envVars, spruce, modes, calls, stdout, browser>>

\* merge_pipeline_config: tempdir() and the build-test-jobs script
BuildTestJobs ==
    /\ pc = "build_test_jobs"
    /\ steps' = Append(steps, "build_scripts")
    /\ \/ \* tempdir()? fails
          /\ Bail("io")
          /\ UNCHANGED scripts
       \/ RunScript("build-test-jobs", "build_upstream_jobs")
    /\ present' = None
    /\ UNCHANGED <<cmdVars, envVars, spruce, modes, calls, stdout, browser>>

\* merge_pipeline_config: the build-upstream-jobs script
BuildUpstreamJobs ==
    /\ pc = "build_upstream_jobs"
    /\ RunScript("build-upstream-jobs", "merge")
    /\ UNCHANGED <<cmdVars, envVars, present, spruce, steps, modes, calls,
                   stdout, browser>>

\* the input of the merge whose absence the model follows: pipeline/base.yml
MergeInputs == {"base"}

\* `Command::new("spruce")...output()?`: the process cannot be started, or
\* it exits with a non-zero or a zero status
SpruceStates == {"nospawn", "nonzero", "ok"}

\* spruce exits with a zero status only when it could read pipeline/base.yml
SpruceCanEnd(files, st) == st = "ok" => "base" \in files

\* a merge that does not look at the exit status of spruce
SpruceError_IgnoreStatus(st) ==
    IF st = "nospawn" THEN Some("io") ELSE None

\* the error of merge_pipeline_config for the way spruce ended
SpruceError(st) ==
    CASE st = "nospawn" -> Some("io")
      [] st = "nonzero" -> Some("MergeFailed")
      [] OTHER -> None

\* merge_pipeline_config: spruce merge, the write of the deploy artifact
\* and the return, where the TempDir guard is dropped and removes the
\* temporary directory with everything in it
MergePipelineConfig ==
    /\ pc = "merge"
    /\ steps' = Append(steps, "merge_pipeline_config")
    /\ \E files \in SUBSET MergeInputs, st \in SpruceStates :
         /\ SpruceCanEnd(files, st)
         /\ present' = Some(files)
         /\ spruce' = Some(st)
         /\ IF IsSome(SpruceError(st))
            THEN /\ Bail(Unwrap(SpruceError(st)))
                 /\ tmpDeploy' = DropTempDir(tmpDeploy)
                 /\ UNCHANGED <<config, written>>
            ELSE \E doc \in Docs :
                   \/ \* the output is not UTF-8, or fs::write fails
                      /\ Bail("io")
                      /\ tmpDeploy' = DropTempDir(tmpDeploy)
                      /\ UNCHANGED <<config, written>>
                   \/ /\ written' = Append(written,
                                           [path |-> TmpDeployPath,
                                            doc |-> doc])
                      /\ tmpDeploy' = DropTempDir(Some(doc))
                      /\ config' = Some(doc)
                      /\ Goto("extract_meta")
    /\ scripts' = <<>>
    /\ UNCHANGED <<options, base_dir, settings_file, meta, target, pipeline,
                   flyrc, envTarget, metaBlock, modes, calls, stdout, browser>>

\* the target with the environment preferred over the metadata
ResolveTarget_EnvFirst(m, env) == OrElse(env, m.target)

\* the target of extract_meta: meta.target, else CONCOURSE_TARGET
ResolveTarget(m, env) == OrElse(m.target, env)

\* the pipeline name with meta.name preferred over meta.pipeline
ResolvePipeline_NameFirst(m) == OrElse(m.name, m.pipeline)

\* the pipeline name of extract_meta: meta.pipeline, else meta.name
ResolvePipeline(m) == OrElse(m.pipeline, m.name)

\* RepipeCommand::extract_meta
ExtractMeta ==
    /\ pc = "extract_meta"
    /\ steps' = Append(steps, "extract_meta")
    /\ \/ \* spruce does not spawn, the pipe breaks, it exits non-zero,
          \* or its output does not parse as PipelineMeta
          /\ \E e \in {"io", "ExtractFailed", "parse"} : Bail(e)
          /\ UNCHANGED <<meta, target, pipeline>>
       \/ \E m \in {metaBlock} :
            LET t == ResolveTarget(m, envTarget)
                p == ResolvePipeline(m)
            IN /\ meta' = Some(m)
               /\ IF ~IsSome(t)
                  THEN /\ Bail("MissingTarget")
                       /\ UNCHANGED <<target, pipeline>>
                  ELSE /\ target' = Unwrap(t)
                       /\ IF ~IsSome(p)
                          THEN /\ Bail("MissingPipelineName")
                               /\ UNCHANGED pipeline
                          ELSE /\ pipeline' = Unwrap(p)
                               /\ Goto("validate_target")
    /\ present' = None
    /\ UNCHANGED <<options, base_dir, settings_file, config, flyrc, envVars,
                   logVars>>

\* the places a credentials file can be in: $HOME/.flyrc, the path an
\* override variable names, ./.flyrc
CredentialFiles == {"home", "override", "cwd"}

\* the credentials files validate_target tries, in order:
\* flyrc_path = format!("{}/.flyrc", home_dir), and nothing else
FlyrcPaths == <<"home">>

\* the first of the paths that names an existing file, None if none does
FirstExisting(paths, files) ==
    LET hits == SelectSeq(paths, LAMBDA f : f \in files)
    IN IF hits = <<>> THEN None ELSE Some(hits[1])

\* the path of a directory of CiDirs, relative to the working directory
DirPath(d) ==
    CASE d = "self"   -> "."
      [] d = "kit"    -> "./<kit>/ci"
      [] d = "child"  -> "./ci"
      [] d = "parent" -> "../ci"

\* possible_paths of find_ci_directory (ci.rs), in its order
CiCandidates == <<"kit", "child", "parent">>

\* find_ci_directory (ci.rs): Some(path) of the first candidate that exists,
\* None when it bails
find_ci_directory(dirs) ==
    LET hit == FirstExisting(CiCandidates, dirs)
    IN IF IsSome(hit) THEN Some(DirPath(Unwrap(hit))) ELSE None

\* validate_target: HOME, and the open of ~/.flyrc by fs::read_to_string
OpenFlyrc ==
    /\ pc = "validate_target"
    /\ steps' = Append(steps, "validate_target")
    /\ \/ \* env::var("HOME")? fails
          /\ Bail("env")
          /\ UNCHANGED present
       \/ \E files \in SUBSET CredentialFiles :
            /\ present' = Some(files)
            /\ IF IsSome(FirstExisting(FlyrcPaths, files))
               THEN Goto("read_flyrc")
               ELSE \* io::ErrorKind::NotFound
                    Bail("NotFound")
    /\ UNCHANGED <<options, base_dir, settings_file, meta, target, pipeline,
                   config,
                   flyrc, envVars, logVars>>

\* validate_target: the read and the parse of ~/.flyrc into flyrc_json;
\* only the entry of self.target is ever looked at
ReadFlyrc ==
    /\ pc = "read_flyrc"
    /\ \/ \* the file is unreadable, or is not JSON
          /\ \E e \in {"io", "parse"} : Bail(e)
          /\ UNCHANGED flyrc
       \/ /\ \E entry \in Opt(FlyrcEntry) : flyrc' = Some(entry)
          /\ Goto("check_target")
    /\ present' = None
    /\ UNCHANGED <<options, base_dir, settings_file, meta, target, pipeline,
                   config,
                   envVars, steps, logVars>>

\* flyrc_json["targets"][target][field].as_str(): None when the target has
\* no entry or the entry has no such string field
FlyrcField(entry, field) ==
    IF IsSome(entry) THEN Unwrap(entry)[field] ELSE None

\* one check of validate_target that wants the field of the entry to be
\* there also when the metadata does not declare it
CheckField_RequireField(declared, found, missing, mismatch) ==
    IF ~IsSome(found) THEN Some(missing)
    ELSE IF ~IsSome(declared) THEN None
    ELSE IF Unwrap(declared) # Unwrap(found) THEN Some(mismatch)
    ELSE None

\* one check of validate_target that only wants the field to be there
CheckField_PresenceOnly(declared, found, missing, mismatch) ==
    IF ~IsSome(declared) THEN None
    ELSE IF ~IsSome(found) THEN Some(missing)
    ELSE None

\* one check of validate_target: skipped when the metadata does not declare
\* the field, else the entry must have it and it must be equal
CheckField(declared, found, missing, mismatch) ==
    IF ~IsSome(declared) THEN None
    ELSE IF ~IsSome(found) THEN Some(missing)
    ELSE IF Unwrap(declared) # Unwrap(found) THEN Some(mismatch)
    ELSE None

\* validate_target without its team check
CheckTarget_UrlOnly ==
    /\ pc = "check_target"
    /\ LET m == Unwrap(meta)
           entry == Unwrap(flyrc)
           r == CheckField(m.url, FlyrcField(entry, "api"),
                           "NoTargetURL", "TargetURLMismatch")
       IN IF IsSome(r) THEN Bail(Unwrap(r)) ELSE Goto("dispatch")
    /\ flyrc' = None
    /\ UNCHANGED <<options, base_dir, settings_file, meta, target, pipeline,
                   config,
                   envVars, present, steps, logVars>>

\* validate_target: the URL and the team checks, and the return
CheckTarget ==
    /\ pc = "check_target"
    /\ LET m == Unwrap(meta)
           entry == Unwrap(flyrc)
           r == OrElse(CheckField(m.url, FlyrcField(entry, "api"),
                                  "NoTargetURL", "TargetURLMismatch"),
                       CheckField(m.team, FlyrcField(entry, "team"),
                                  "NoTargetTeam", "TargetTeamMismatch"))
       IN IF IsSome(r) THEN Bail(Unwrap(r)) ELSE Goto("dispatch")
    /\ flyrc' = None
    /\ UNCHANGED <<options, base_dir, settings_file, meta, target, pipeline,
                   config,
                   envVars, present, steps, logVars>>

\* the file a path names when it is opened: the deploy artifact in the
\* temporary directory, or whatever the working directory holds under the
\* name .deploy.yml (cwdFile), which this program never writes
FileAt(path, cwdFile) == IF path = CwdDeployPath THEN cwdFile ELSE tmpDeploy

\* fly_path.unwrap_or("fly")
FlyCmd == UnwrapOr(options.fly_path, <<"fly">>)

\* the mode with validation entered only at the strict level
ModeOf_StrictOnly(o) ==
    IF o.validate > 1 THEN "validate"
    ELSE IF o.dry_run > 0 THEN "dry_run"
    ELSE "apply"

\* the mode with the dry-run test before the validation test
ModeOf_DryRunFirst(o) ==
    IF o.dry_run > 0 THEN "dry_run"
    ELSE IF o.validate > 0 THEN "validate"
    ELSE "apply"

\* the mode with the dry-run branch missing
ModeOf_NoDryRun(o) ==
    IF o.validate > 0 THEN "validate" ELSE "apply"

\* the mode chosen by the if / else if / else of execute
ModeOf(o) ==
    IF o.validate > 0 THEN "validate"
    ELSE IF o.dry_run > 0 THEN "dry_run"
    ELSE "apply"

\* a fly invocation: `fly --target <target> <op> [--pipeline <pipeline>]
\* [flags] [--config <path>]`; seen is the content of the file the path
\* names when the process is started
FlyCall(op, pl, flags, path, cwdFile) ==
    [prog |-> FlyCmd, target |-> target, op |-> op, pipeline |-> pl,
     flags |-> flags, config |-> path,
     seen |-> IF IsSome(path) THEN FileAt(Unwrap(path), cwdFile) ELSE None,
     status |-> "ok"]

\* `Command::status()?`: an Err only when the process cannot be started;
\* the exit status itself is discarded
Status(call, next) ==
    \E st \in {"nospawn", "ok", "nonzero"} :
        IF st = "nospawn"
        THEN /\ Bail("io")
             /\ UNCHANGED calls
        ELSE /\ calls' = Append(calls, [call EXCEPT !.status = st])
             /\ Goto(next)

\* execute: validation mode
DispatchValidate(cwdFile) ==
    /\ Status(FlyCall("validate-pipeline", None,
                      IF options.validate >= 2 THEN {"--strict"} ELSE {},
                      Some(CwdDeployPath), cwdFile),
              "open_browser")
    /\ UNCHANGED stdout

\* execute: dry-run mode, println!("{}", fs::read_to_string(".deploy.yml")?)
DispatchDryRun(cwdFile) ==
    /\ IF IsSome(FileAt(CwdDeployPath, cwdFile))
       THEN /\ stdout' = Append(stdout,
                          [line |-> "deploy",
                           text |-> Unwrap(FileAt(CwdDeployPath, cwdFile))])
            /\ Goto("open_browser")
       ELSE /\ Bail("io")
            /\ UNCHANGED stdout
    /\ UNCHANGED calls

\* execute: normal mode, set-pipeline
DispatchSetPipeline(cwdFile) ==
    /\ Status(FlyCall("set-pipeline", Some(pipeline),
                      IF options.yes THEN {"--non-interactive"} ELSE {},
                      Some(CwdDeployPath), cwdFile),
              "pause_pipeline")
    /\ UNCHANGED stdout

\* execute: the mode dispatch
Dispatch ==
    /\ pc = "dispatch"
    /\ steps' = Append(steps, "dispatch")
    /\ modes' = Append(modes, ModeOf(options))
    /\ \E cwdFile \in Opt(Docs) :
         CASE ModeOf(options) = "validate" -> DispatchValidate(cwdFile)
           [] ModeOf(options) = "dry_run"  -> DispatchDryRun(cwdFile)
           [] OTHER                        -> DispatchSetPipeline(cwdFile)
    /\ UNCHANGED <<cmdVars, envVars, present, scripts, spruce, browser>>

\* pause_cmd with the test inverted
PauseCmd_Inverted(o) == IF o.pause THEN "unpause-pipeline" ELSE "pause-pipeline"

\* pause_cmd of execute
PauseCmd(o) == IF o.pause THEN "pause-pipeline" ELSE "unpause-pipeline"

\* execute: normal mode, pause-pipeline / unpause-pipeline
PausePipeline ==
    /\ pc = "pause_pipeline"
    /\ Status(FlyCall(PauseCmd(options), Some(pipeline), {}, None, None),
              "expose_pipeline")
    /\ UNCHANGED <<cmdVars, envVars, present, steps, modes, scripts, spruce,
                   stdout, browser>>

\* `expose` without the fallback to meta.exposed
ExposeOf_IgnoreMeta(o, m) == UnwrapOr(o.expose, FALSE)

\* `expose` of execute: options.expose, else meta.exposed, else false
ExposeOf(o, m) ==
    UnwrapOr(o.expose,
             UnwrapOr(IF IsSome(m) THEN Unwrap(m).exposed ELSE None, FALSE))

\* expose_cmd of execute
ExposeCmd(o, m) ==
    IF ExposeOf(o, m) THEN "expose-pipeline" ELSE "hide-pipeline"

\* execute: normal mode, expose-pipeline / hide-pipeline
ExposePipeline ==
    /\ pc = "expose_pipeline"
    /\ Status(FlyCall(ExposeCmd(options, meta), Some(pipeline), {}, None,
                      None),
              "open_browser")
    /\ UNCHANGED <<cmdVars, envVars, present, steps, modes, scripts, spruce,
                   stdout, browser>>

\* the URL execute opens: "{url}/teams/{team}/pipelines/{pipeline}"
PipelineUrl ==
    <<UnwrapOr(Unwrap(meta).url, EmptyString),
      UnwrapOr(Unwrap(meta).team, EmptyString),
      pipeline>>

\* execute with a browser that is tried again for as long as it does not
\* open: a failed attempt is noted, then taken back and repeated
OpenBrowser_Retry ==
    /\ pc = "open_browser"
    /\ IF options.open_browser > 0
       THEN IF browser = <<>>
            THEN \E opened \in BOOLEAN :
                   /\ browser' = <<[url |-> PipelineUrl, opened |-> opened]>>
                   /\ IF opened THEN Goto("done")
                      ELSE UNCHANGED <<pc, err>>
            ELSE /\ browser' = <<>>
                 /\ UNCHANGED <<pc, err>>
       ELSE /\ UNCHANGED browser
            /\ Goto("done")
    /\ UNCHANGED <<cmdVars, envVars, present, steps, modes, scripts, spruce,
                   calls, stdout>>

\* execute with a browser that must open: the error of open::that returned
OpenBrowser_Fatal ==
    /\ pc = "open_browser"
    /\ IF options.open_browser > 0
       THEN \E opened \in BOOLEAN :
              /\ browser' = Append(browser,
                                   [url |-> PipelineUrl, opened |-> opened])
              /\ UNCHANGED stdout
              /\ IF opened THEN Goto("done") ELSE Bail("io")
       ELSE /\ UNCHANGED <<browser, stdout>>
            /\ Goto("done")
    /\ UNCHANGED <<cmdVars, envVars, present, steps, modes, scripts, spruce,
                   calls>>

\* execute: the browser, and the return of Ok(())
OpenBrowser ==
    /\ pc = "open_browser"
    /\ IF options.open_browser > 0
       THEN \E opened \in BOOLEAN :
              /\ browser' = Append(browser,
                                   [url |-> PipelineUrl, opened |-> opened])
              /\ stdout' = IF opened THEN stdout
                           ELSE Append(stdout,
                                       [line |-> "url", text |-> PipelineUrl])
       ELSE UNCHANGED <<browser, stdout>>
    /\ Goto("done")
    /\ UNCHANGED <<cmdVars, envVars, present, steps, modes, scripts, spruce,
                   calls>>

\* GenesisKitUI::repipe_interactive, given the result of execute (None for
\* Ok, Some(e) for Err(e)): `if let Err(e) = repipe.execute() { error!(..) }`
\* logs the error and returns (), whatever the result was
repipe_interactive(result) == "unit"

\* the exit status of the process for what the entry point returned: a
\* function that returns () cannot make main return an Err
ExitStatus(returned) == IF returned = "unit" THEN 0 ELSE 1

Next ==
    \/ CheckRequirements
    \/ FindSettingsFile
    \/ BuildTestJobs
    \/ BuildUpstreamJobs
    \/ MergePipelineConfig
    \/ ExtractMeta
    \/ OpenFlyrc
    \/ ReadFlyrc
    \/ CheckTarget
    \/ Dispatch
    \/ PausePipeline
    \/ ExposePipeline
    \/ OpenBrowser

Spec == Init /\ [][Next]_vars

\* execute under the condition that every blocking call returns: a step
\* that can be taken (a subprocess that was started, a file operation) is
\* taken in the end
\* the values of CONCOURSE_TARGET of SettingsSpec: every string of at most
\* MaxSelectorLen characters over a letter and the two characters that
\* find_settings_file and determine_settings_file replace
SelectorChars == {"a", "/", " "}

Selectors ==
    UNION {[1..n -> SelectorChars] : n \in 0..MaxSelectorLen}

\* RepipeCommand::new with the default options in the ci directory, for
\* every value of CONCOURSE_TARGET
SettingsInit ==
    /\ options = DefaultOptions
    /\ metaBlock \in CoreMetas
    /\ base_dir = CurrentDir
    /\ settings_file = DefaultSettingsFile
    /\ meta = None
    /\ target = EmptyString
    /\ pipeline = EmptyString
    /\ config = None
    /\ flyrc = None
    /\ pc = "check_requirements"
    /\ err = None
    /\ envTarget \in Opt(Selectors)
    /\ tmpDeploy = None
    /\ written = <<>>
    /\ present = Some(CoreDirs)
    /\ spruce = None
    /\ steps = <<>>
    /\ modes = <<>>
    /\ scripts = <<>>
    /\ calls = <<>>
    /\ stdout = <<>>
    /\ browser = <<>>

SettingsSpec == SettingsInit /\ [][Next]_vars

\* the metadata blocks of FairSpec: one that declares everything, with
\* each value of exposed, and one that declares nothing
FairMetas ==
    CoreMetas \cup {[target |-> None, url |-> None, team |-> None,
                     pipeline |-> None, name |-> None, exposed |-> None]}

\* RepipeCommand::new with every value of the options, started in the ci
\* directory, CONCOURSE_TARGET unset or set to the first target
FairInit ==
    /\ Init
    /\ metaBlock \in FairMetas
    /\ present = Some(CoreDirs)
    /\ envTarget \in {None, Some(TargetPool[1])}

FairSpec == FairInit /\ [][Next]_vars /\ WF_vars(Next)

(***************************************************************************)
(* Properties.                                                             *)
(***************************************************************************)

\* the steps of execute, in the order of the source
StepOrder ==
    <<"check_requirements", "find_settings_file", "build_scripts",
      "merge_pipeline_config", "extract_meta", "validate_target", "dispatch">>

IsPrefix(s, t) ==
    /\ Len(s) <= Len(t)
    /\ \A i \in 1..Len(s) : s[i] = t[i]

Ops == [i \in 1..Len(calls) |-> calls[i].op]

AllCallsOk == \A i \in 1..Len(calls) : calls[i].status = "ok"

MutatingOps ==
    {"set-pipeline", "pause-pipeline", "unpause-pipeline",
     "expose-pipeline", "hide-pipeline"}

\* the documents printed by the dry-run mode
DeployLines == SelectSeq(stdout, LAMBDA l : l.line = "deploy")

\* the dispatch step has been taken and has not failed
Dispatched == pc \in {"pause_pipeline", "expose_pipeline", "open_browser", "done"}

C2_RemoteFailureIsFatal ==
    \A i \in 1..Len(calls) :
        calls[i].status = "nonzero" =>
            /\ i = Len(calls)
            /\ pc = "failed"
            /\ IsSome(err)

\* C3: with a validation level of at least 1 no set-pipeline, pause-pipeline,
\* unpause-pipeline, expose-pipeline or hide-pipeline call is issued, whatever
\* the other options are.
C3_ValidateIsReadOnly ==
    options.validate >= 1 =>
        \A i \in 1..Len(calls) : calls[i].op \notin MutatingOps

\* a finished validation run with every other option set
C3_Witness ==
    /\ pc = "done"
    /\ options.validate >= 1
    /\ options.dry_run >= 1 /\ options.pause /\ options.yes
    /\ options.expose = Some(TRUE) /\ options.open_browser >= 1
    /\ Ops = <<"validate-pipeline">>

\* C4: the dispatcher enters exactly one mode per command: validate when
\* validate > 0, otherwise dry-run when dry_run > 0, otherwise apply; what the
\* command did is what that mode does and nothing of the other two.
C4_OneModeByPriority ==
    /\ Len(modes) <= 1
    /\ Dispatched =>
         /\ Len(modes) = 1
         /\ IF options.validate > 0
            THEN /\ modes[1] = "validate"
                 /\ Ops = <<"validate-pipeline">>
                 /\ DeployLines = <<>>
            ELSE IF options.dry_run > 0
            THEN /\ modes[1] = "dry_run"
                 /\ calls = <<>>
                 /\ Len(DeployLines) = 1
            ELSE /\ modes[1] = "apply"
                 /\ Len(calls) >= 1
                 /\ \A i \in 1..Len(calls) : calls[i].op \in MutatingOps
                 /\ DeployLines = <<>>

\* a finished run with both validate and dry_run set: only validate ran
C4_Witness ==
    /\ pc = "done"
    /\ options.validate > 0 /\ options.dry_run > 0
    /\ modes = <<"validate">>
    /\ Ops = <<"validate-pipeline">>

\* C5: in apply mode with every remote call succeeding, the calls are
\* set-pipeline, then pause-pipeline (pause set) or unpause-pipeline, then
\* expose-pipeline or hide-pipeline, each once and in this order, all three
\* once dispatch is over; set-pipeline carries --non-interactive exactly
\* when yes is set.
C5_ApplyCallSequence ==
    (options.validate = 0 /\ options.dry_run = 0 /\ AllCallsOk) =>
        /\ Len(calls) <= 3
        /\ Len(calls) >= 1 =>
             /\ calls[1].op = "set-pipeline"
             /\ ("--non-interactive" \in calls[1].flags) <=> options.yes
        /\ Len(calls) >= 2 =>
             calls[2].op = (IF options.pause THEN "pause-pipeline"
                            ELSE "unpause-pipeline")
        /\ Len(calls) >= 3 =>
             calls[3].op \in {"expose-pipeline", "hide-pipeline"}
        /\ pc \in {"open_browser", "done"} => Len(calls) = 3

\* a finished apply run, all calls successful, with pause and yes set
C5_Witness ==
    /\ pc = "done"
    /\ options.validate = 0 /\ options.dry_run = 0
    /\ options.pause /\ options.yes
    /\ AllCallsOk
    /\ Len(calls) = 3
    /\ calls[2].op = "pause-pipeline"

\* C6: in apply mode the third call is expose-pipeline exactly when the
\* resolved exposure is true: the expose option when it is Some, otherwise
\* the exposed flag of the metadata when present, otherwise false.
C6_ExposureResolution ==
    Len(calls) >= 3 =>
        LET m == Unwrap(meta)
            resolved == IF options.expose # None THEN options.expose[1]
                        ELSE IF m.exposed # None THEN m.exposed[1]
                        ELSE FALSE
        IN /\ calls[3].op \in {"expose-pipeline", "hide-pipeline"}
           /\ calls[3].op = "expose-pipeline" <=> resolved

\* pause unset, expose option None, metadata exposed true: unpause, expose
C6_Witness ==
    /\ pc = "done"
    /\ ~options.pause /\ options.expose = None
    /\ Unwrap(meta).exposed = Some(TRUE)
    /\ Ops = <<"set-pipeline", "unpause-pipeline", "expose-pipeline">>

\* C7: from its creation to the end of dispatch the deploy artifact written
\* by the Config Merger exists, and every validate-pipeline and set-pipeline
\* call is given its path and finds the merged document there.
C7_ArtifactPresentAtCalls ==
    /\ (written # <<>> /\ pc \notin {"done", "failed", "open_browser"}) =>
            tmpDeploy = Some(written[Len(written)].doc)
    /\ \A i \in 1..Len(calls) :
         IsSome(calls[i].config) =>
            /\ written # <<>>
            /\ calls[i].config = Some(written[Len(written)].path)
            /\ calls[i].seen = config

\* C8: in dry-run mode (validate = 0, dry_run >= 1), once merge, metadata
\* extraction and target validation have succeeded and dispatch has been
\* taken, the command has not failed and what it printed is exactly the
\* document the Config Merger produced.
C8_DryRunPrintsMergedDocument ==
    (options.validate = 0 /\ options.dry_run >= 1 /\ Len(steps) = 7) =>
        /\ pc # "failed"
        /\ DeployLines = <<[line |-> "deploy", text |-> Unwrap(config)]>>

\* C9: in dry-run mode (validate = 0, dry_run >= 1) no remote-orchestrator
\* process is ever spawned.
C9_DryRunSpawnsNoRemote ==
    (options.validate = 0 /\ options.dry_run >= 1) => calls = <<>>

\* a finished dry run that printed a document
C9_Witness ==
    /\ pc = "done"
    /\ options.validate = 0 /\ options.dry_run >= 1
    /\ Len(DeployLines) = 1
    /\ calls = <<>>

\* C10: once the metadata is parsed, if it has no target and
\* CONCOURSE_TARGET is unset the command has failed with the missing-target
\* error and no remote call was issued; otherwise the resolved target is
\* metadata.target when present, else the value of the environment.
C10_TargetResolution ==
    IsSome(meta) =>
        LET m == Unwrap(meta)
        IN IF m.target = None /\ envTarget = None
           THEN /\ pc = "failed"
                /\ err = Some("MissingTarget")
                /\ calls = <<>>
           ELSE target = (IF m.target # None THEN m.target[1]
                          ELSE envTarget[1])

\* no target in the metadata, none in the environment: missing-target error
C10_Witness ==
    /\ IsSome(meta)
    /\ Unwrap(meta).target = None /\ envTarget = None
    /\ pc = "failed"
    /\ err = Some("MissingTarget")
    /\ steps = SubSeq(StepOrder, 1, 5)

\* metadata extraction has returned Ok: validate_target is next or started
ExtractionSucceeded == pc = "validate_target" \/ Len(steps) >= 6

\* the name of every set-pipeline, pause / unpause and expose / hide call is
\* metadata.pipeline when present, else metadata.name
CallsUseResolvedName ==
    \A i \in 1..Len(calls) :
        calls[i].op \in MutatingOps =>
            LET m == Unwrap(meta)
            IN calls[i].pipeline =
                 Some(IF m.pipeline # None THEN m.pipeline[1] ELSE m.name[1])

\* C11: once the metadata is parsed, if it has neither pipeline nor name the
\* command has failed with the missing-pipeline-name error and no remote call
\* was issued; otherwise, extraction having succeeded, the resolved pipeline
\* name is metadata.pipeline when present, else metadata.name, and every
\* set-pipeline, pause / unpause and expose / hide call carries that name.
C11_PipelineResolution ==
    IsSome(meta) =>
        LET m == Unwrap(meta)
        IN /\ (m.pipeline = None /\ m.name = None) =>
                /\ pc = "failed"
                /\ err = Some("MissingPipelineName")
                /\ calls = <<>>
           /\ ExtractionSucceeded =>
                pipeline = (IF m.pipeline # None THEN m.pipeline[1]
                            ELSE m.name[1])
           /\ CallsUseResolvedName

\* C11 (amended): as C11, but with neither pipeline nor name the error is
\* the missing-pipeline-name error only when a target was resolved; when the
\* metadata has no target and CONCOURSE_TARGET is unset, the target rule,
\* applied first, has failed the command with the missing-target error.
\* Either way no remote call was issued.
C11_PipelineResolutionAfterTarget ==
    IsSome(meta) =>
        LET m == Unwrap(meta)
        IN /\ (m.pipeline = None /\ m.name = None) =>
                /\ pc = "failed"
                /\ err = (IF m.target = None /\ envTarget = None
                          THEN Some("MissingTarget")
                          ELSE Some("MissingPipelineName"))
                /\ calls = <<>>
           /\ ExtractionSucceeded =>
                pipeline = (IF m.pipeline # None THEN m.pipeline[1]
                            ELSE m.name[1])
           /\ CallsUseResolvedName

\* a finished apply run whose three calls carry metadata.pipeline although
\* metadata.name is there too and differs
C11_Witness ==
    /\ pc = "done"
    /\ Unwrap(meta).pipeline # None /\ Unwrap(meta).name # None
    /\ Unwrap(meta).pipeline # Unwrap(meta).name
    /\ Len(calls) = 3
    /\ \A i \in 1..3 : calls[i].pipeline = Unwrap(meta).pipeline

\* C12: in every state reached after metadata extraction has succeeded the
\* resolved target and the resolved pipeline name are non-empty strings.
C12_ResolvedNonEmpty ==
    ExtractionSucceeded =>
        /\ target # EmptyString
        /\ pipeline # EmptyString

\* validate_target has read the credentials file and is about to look at
\* the entry of the resolved target
AtTargetCheck == pc = "check_target"

\* the entry of the resolved target in the credentials file, None if absent
CredEntry == Unwrap(flyrc)

\* the URL check of validate_target passes: no URL declared, or the entry
\* has the same API URL
UrlAgrees ==
    Unwrap(meta).url # None =>
        /\ CredEntry # None
        /\ CredEntry[1].api = Unwrap(meta).url

\* C13: when the metadata declares a URL and the credentials entry of the
\* resolved target has a different API URL, target validation fails with the
\* URL-mismatch error and no remote call has been issued; a command that
\* ended with that error has issued none, whatever its options.
C13_UrlMismatchFails ==
    /\ [][(/\ AtTargetCheck
            /\ Unwrap(meta).url # None
            /\ CredEntry # None
            /\ CredEntry[1].api # None
            /\ CredEntry[1].api # Unwrap(meta).url)
           => (/\ pc' = "failed"
               /\ err' = Some("TargetURLMismatch")
               /\ calls' = <<>>)]_vars
    /\ [](err = Some("TargetURLMismatch") => pc = "failed" /\ calls = <<>>)

\* a run in apply mode that ended with the URL-mismatch error
C13_Witness ==
    /\ pc = "failed"
    /\ err = Some("TargetURLMismatch")
    /\ Unwrap(meta).url # None
    /\ ModeOf(options) = "apply"
    /\ steps = SubSeq(StepOrder, 1, 6)
    /\ calls = <<>>

\* C14: when the metadata declares a team and the credentials entry of the
\* resolved target has a different team, target validation fails with the
\* team-mismatch error and no remote call has been issued.
C14_TeamMismatchFails ==
    [][(/\ AtTargetCheck
        /\ Unwrap(meta).team # None
        /\ CredEntry # None
        /\ CredEntry[1].team # None
        /\ CredEntry[1].team # Unwrap(meta).team)
       => (/\ pc' = "failed"
           /\ err' = Some("TargetTeamMismatch")
           /\ calls' = <<>>)]_vars

\* C14 (amended): in that case target validation fails and no remote call
\* has been issued; the error is the team-mismatch error when the URL check,
\* which runs first, passed, and the error of the URL check otherwise.
C14_TeamMismatchFailsAfterUrl ==
    /\ [][(/\ AtTargetCheck
            /\ Unwrap(meta).team # None
            /\ CredEntry # None
            /\ CredEntry[1].team # None
            /\ CredEntry[1].team # Unwrap(meta).team)
           => (/\ pc' = "failed"
               /\ calls' = <<>>
               /\ err' = (IF UrlAgrees THEN Some("TargetTeamMismatch")
                          ELSE IF CredEntry[1].api = None
                          THEN Some("NoTargetURL")
                          ELSE Some("TargetURLMismatch")))]_vars
    /\ [](err = Some("TargetTeamMismatch") => pc = "failed" /\ calls = <<>>)

\* a run that passed the URL check and ended with the team-mismatch error
C14_Witness ==
    /\ pc = "failed"
    /\ err = Some("TargetTeamMismatch")
    /\ Unwrap(meta).url # None /\ Unwrap(meta).team # None
    /\ steps = SubSeq(StepOrder, 1, 6)
    /\ calls = <<>>

\* C15: when the credentials file has no entry for the resolved target,
\* target validation fails (with the error of a target that is not found)
\* and dispatch is not reached, whatever the metadata declares.
C15_UnknownTargetFails ==
    [][(AtTargetCheck /\ CredEntry = None)
       => (/\ pc' = "failed"
           /\ err' \in {Some("UnknownTarget"), Some("NoTargetURL"),
                         Some("NoTargetTeam")})]_vars

\* validate_target has looked for the credentials file and has not read it
CredentialsLooked == Len(steps) = 6 /\ IsSome(present)

\* C16: target validation finds the credentials file when one of the
\* home-directory default, the path of the override variable and the
\* current directory has it, and fails with the credentials-not-found error
\* exactly when none of the three exists.
C16_CredentialsSearchOrder ==
    CredentialsLooked =>
        IF Unwrap(present) = {}
        THEN pc = "failed" /\ err = Some("NotFound")
        ELSE pc = "read_flyrc" /\ err = None

\* find_settings_file has run and the build scripts have not started
SettingsLooked == Len(steps) = 2 /\ IsSome(present)

\* C17: with CONCOURSE_TARGET set and the target-specific file there,
\* settings resolution picks settings-<sanitized target>.yml, also when
\* settings.yml is there too; with the variable unset or the target-specific
\* file missing, and settings.yml there, it picks settings.yml.  The same
\* choice is made by determine_settings_file of the ci command.
C17_SettingsPreference ==
    SettingsLooked =>
        LET files == Unwrap(present)
            specific == IsSome(envTarget) /\ "target" \in files
        IN /\ specific =>
                /\ pc = "build_test_jobs"
                /\ settings_file = TargetSettingsFile(Unwrap(envTarget))
                /\ settings_file # DefaultSettingsFile
                /\ determine_settings_file(envTarget, files) =
                       Some(CiTargetSettingsFile(Unwrap(envTarget)))
           /\ (~specific /\ "default" \in files) =>
                /\ pc = "build_test_jobs"
                /\ settings_file = DefaultSettingsFile
                /\ determine_settings_file(envTarget, files) =
                       Some(DefaultSettingsFile)

\* both files are there and the target-specific one was picked
C17_Witness ==
    /\ pc = "build_test_jobs"
    /\ IsSome(envTarget)
    /\ present = Some({"target", "default"})
    /\ settings_file = TargetSettingsFile(Unwrap(envTarget))

\* C18: when neither the target-specific settings file nor settings.yml is
\* there the command has failed with the settings-not-found error, no build
\* script was run and the merge tool was not invoked; a command that ended
\* with that error never got past settings resolution.
C18_SettingsNotFoundFirst ==
    /\ (SettingsLooked /\ Unwrap(present) = {}) =>
            /\ pc = "failed"
            /\ err = Some("SettingsNotFound")
    /\ err = Some("SettingsNotFound") =>
            /\ steps = SubSeq(StepOrder, 1, 2)
            /\ scripts = <<>>
            /\ written = <<>>
            /\ config = None

\* CONCOURSE_TARGET set, no settings file of either name: settings-not-found
C18_Witness ==
    /\ pc = "failed"
    /\ err = Some("SettingsNotFound")
    /\ IsSome(envTarget)
    /\ present = Some({})
    /\ steps = SubSeq(StepOrder, 1, 2)

\* C19: when the command has finished, with success or with a failure, after
\* the deploy artifact was written, the deploy artifact no longer exists.
\* (RepipeOptions has no debug mode that would keep it.)
C19_ArtifactGoneAtExit ==
    (pc \in {"done", "failed"} /\ written # <<>>) => tmpDeploy = None

\* a run that wrote the artifact, went through all its steps and ended in a
\* failure of the dispatch step
C19_Witness ==
    /\ pc = "failed"
    /\ written # <<>>
    /\ steps = StepOrder
    /\ tmpDeploy = None

\* C21: when the command started by the entry point (the default options)
\* has ended with a fatal error of any step, the outcome the entry point
\* reports to its caller is a failure: a non-zero exit status.
C21_FatalErrorReportsFailure ==
    (pc = "failed" /\ options = DefaultOptions) =>
        ExitStatus(repipe_interactive(err)) # 0

\* the build script that merge_pipeline_config ran last
LastScript == scripts[Len(scripts)]

\* the positions of execute after a build script that did not stop it: the
\* second script (when the first one ran last) or the config merge
AfterScript(name) ==
    IF name = "build-test-jobs" THEN {"build_upstream_jobs", "merge"}
    ELSE {"merge"}

\* C22: a build script that ran and exited with a non-zero status has not
\* aborted the command: after build-test-jobs the command is at the second
\* build script (or past it, when that one is absent), after
\* build-upstream-jobs at the config merge, and it has not failed.
C22_ScriptFailureNotFatal ==
    (scripts # <<>> /\ LastScript.status = "nonzero") =>
        /\ pc \in AfterScript(LastScript.name)
        /\ err = None
        /\ ENABLED Next

\* both build scripts ran and exited non-zero; the merge is next
C22_Witness ==
    /\ pc = "merge"
    /\ Len(scripts) = 2
    /\ scripts[1] = [name |-> "build-test-jobs", status |-> "nonzero"]
    /\ scripts[2] = [name |-> "build-upstream-jobs", status |-> "nonzero"]

\* C23: a build script that is there and is not executable is skipped: it
\* does not make the command fail, which goes on with the next script or
\* the config merge.
C23_NonExecutableScriptSkipped ==
    (scripts # <<>> /\ LastScript.status = "notexec") =>
        /\ pc \in AfterScript(LastScript.name)
        /\ err = None

\* merge_pipeline_config has run spruce and metadata extraction has not
\* started
MergeLooked == Len(steps) = 4 /\ IsSome(present)

\* C24: when the merge tool has exited with a non-zero status the command
\* has failed with the merge-failed error, no deploy artifact was written,
\* metadata extraction was not started and no remote call was issued.
C24_MergeFailureStops ==
    spruce = Some("nonzero") =>
        /\ pc = "failed"
        /\ err = Some("MergeFailed")
        /\ written = <<>> /\ tmpDeploy = None /\ config = None
        /\ steps = SubSeq(StepOrder, 1, 4)
        /\ meta = None
        /\ calls = <<>>

\* pipeline/base.yml is there and spruce exits non-zero: merge-failed
C24_Witness ==
    /\ pc = "failed"
    /\ err = Some("MergeFailed")
    /\ spruce = Some("nonzero")
    /\ present = Some({"base"})
    /\ steps = SubSeq(StepOrder, 1, 4)

\* C25: when pipeline/base.yml is absent the Config Merger has failed with
\* the missing-base-config error, which is not the merge-failed error, and
\* no deploy artifact was written.
C25_MissingBaseConfig ==
    (MergeLooked /\ "base" \notin Unwrap(present)) =>
        /\ pc = "failed"
        /\ err = Some("MissingBaseConfig")
        /\ err # Some("MergeFailed")
        /\ written = <<>>

\* check_requirements has run and settings resolution has not started
ToolsLooked == Len(steps) = 1 /\ IsSome(present)

\* C26: when the merge tool, the JSON-query tool or the remote-orchestrator
\* executable (the override path when one is given, else the one on PATH)
\* is missing or not executable, the command has failed in the requirements
\* check: settings resolution, build scripts, merge and remote calls were
\* not started.
C26_MissingToolFailsFirst ==
    (ToolsLooked /\ {"spruce", "jq", "fly"} \ Unwrap(present) # {}) =>
        /\ pc = "failed"
        /\ IsSome(err)
        /\ steps = SubSeq(StepOrder, 1, 1)
        /\ settings_file = DefaultSettingsFile
        /\ scripts = <<>> /\ spruce = None /\ written = <<>>
        /\ calls = <<>>

\* spruce and jq are there, the override path of fly is not usable
C26_Witness ==
    /\ pc = "failed"
    /\ IsSome(options.fly_path)
    /\ present = Some({"which", "spruce", "jq"})
    /\ steps = SubSeq(StepOrder, 1, 1)
    /\ calls = <<>>

\* the dispatched mode has done all it does: its one call, its printed
\* document, or its three calls
ModeComplete ==
    /\ Len(modes) = 1
    /\ CASE modes[1] = "validate" -> Len(calls) = 1
         [] modes[1] = "dry_run"  -> Len(DeployLines) = 1
         [] OTHER                 -> Len(calls) = 3

\* C27: the browser is opened at most once, only with open_browser >= 1 and
\* only when the dispatched mode has completed, and a finished command with
\* open_browser >= 1 has tried; an attempt that failed has printed the URL
\* and the command has ended with success all the same.
C27_BrowserAfterDispatch ==
    /\ browser # <<>> =>
         /\ Len(browser) = 1
         /\ options.open_browser >= 1
         /\ ModeComplete
         /\ pc = "done" /\ err = None
    /\ (pc = "done" /\ options.open_browser >= 1) => Len(browser) = 1
    /\ \A i \in 1..Len(browser) :
         ~browser[i].opened =>
            \E j \in 1..Len(stdout) :
                stdout[j] = [line |-> "url", text |-> browser[i].url]

\* a finished apply run whose browser did not open: the URL was printed
C27_Witness ==
    /\ pc = "done" /\ err = None
    /\ options.open_browser >= 1
    /\ Len(calls) = 3
    /\ Len(browser) = 1 /\ ~browser[1].opened
    /\ stdout = <<[line |-> "url", text |-> browser[1].url]>>

\* C28: with open_browser at level 2 the command only opens the pipeline:
\* no set-pipeline, pause-pipeline, unpause-pipeline, expose-pipeline or
\* hide-pipeline call is issued.
C28_OpenOnlyAppliesNothing ==
    options.open_browser = 2 =>
        \A i \in 1..Len(calls) : calls[i].op \notin MutatingOps

\* the order in which the ci directory is to be looked for: the working
\* directory when its name is "ci", then ./ci, then ../ci
CiRootOrder == <<"self", "child", "parent">>

\* C29: when the command is constructed its root is the first that exists
\* of the working directory itself when named "ci", its child "ci" and the
\* "ci" of its parent, and the construction has failed with the
\* directory-not-found error when none exists; find_ci_directory of the ci
\* command resolves the same root.
C29_CiRootResolution ==
    steps = <<>> =>
        LET dirs == Unwrap(present)
            root == FirstExisting(CiRootOrder, dirs)
        IN IF IsSome(root)
           THEN /\ base_dir = DirPath(Unwrap(root))
                /\ find_ci_directory(dirs) = Some(DirPath(Unwrap(root)))
           ELSE /\ pc = "failed"
                /\ err = Some("DirectoryNotFound")
                /\ find_ci_directory(dirs) = None

\* C30: when the metadata declares no URL the API URL of the credentials
\* entry is not compared, and when it declares no team the team of the
\* entry is not compared: validation of a target that has an entry passes
\* exactly when each declared field is equal to the field of the entry, so
\* with neither declared it passes whatever the entry holds, missing fields
\* included.
C30_UndeclaredFieldsNotCompared ==
    [][(AtTargetCheck /\ CredEntry # None)
       => LET m == Unwrap(meta)
              e == CredEntry[1]
          IN /\ (pc' = "dispatch" /\ err' = None) <=>
                   /\ m.url # None => e.api = m.url
                   /\ m.team # None => e.team = m.team
             /\ (m.url = None /\ m.team = None) => pc' = "dispatch"]_vars

\* validation passed for a metadata block with neither URL nor team
C30_Witness ==
    /\ pc = "dispatch"
    /\ Unwrap(meta).url = None /\ Unwrap(meta).team = None
    /\ steps = SubSeq(StepOrder, 1, 6)
    /\ err = None

\* the scripts that ran to their end (a spawn that failed started nothing)
Completed == {"ok", "nonzero"}

\* C31: build scripts are run in the order build-test-jobs, then
\* build-upstream-jobs, each at most once: a script is followed by another
\* only when it has run to completion, every script that has been started
\* has completed when the merge tool is about to be invoked, and once the
\* merge tool has been invoked no script is running or run again.
C31_ScriptsInOrderBeforeMerge ==
    /\ Len(scripts) <= 2
    /\ \A i, j \in 1..Len(scripts) :
          i < j => /\ scripts[i].name = "build-test-jobs"
                   /\ scripts[j].name = "build-upstream-jobs"
                   /\ scripts[i].status \in Completed
    /\ pc = "build_upstream_jobs" =>
          \A i \in 1..Len(scripts) :
              /\ scripts[i].name = "build-test-jobs"
              /\ scripts[i].status \in Completed
    /\ pc = "merge" =>
          \A i \in 1..Len(scripts) : scripts[i].status \in Completed
    /\ pc \in {"build_test_jobs", "build_upstream_jobs", "merge"} =>
          spruce = None
    /\ IsSome(spruce) =>
          /\ scripts = <<>>
          /\ IsPrefix(SubSeq(StepOrder, 1, 4), steps)

\* both scripts were there and ran, the merge tool is the next to run
C31_Witness ==
    /\ pc = "merge"
    /\ spruce = None
    /\ scripts = <<[name |-> "build-test-jobs", status |-> "ok"],
                   [name |-> "build-upstream-jobs", status |-> "ok"]>>

\* execute has returned: Ok(()) or an error
Terminated == pc \in {"done", "failed"}

\* C32: when every blocking call returns the command terminates: it comes
\* to the success outcome or to a failure outcome, and on the way no step
\* of the orchestration is started twice, so that there are never more
\* steps than the seven of the order.
C32_Terminates ==
    /\ [](/\ Len(steps) <= Len(StepOrder)
          /\ \A i, j \in 1..Len(steps) : i # j => steps[i] # steps[j])
    /\ <>Terminated

\* the command came to its end through every step, browser included
C32_Witness ==
    /\ pc = "done"
    /\ steps = StepOrder
    /\ Len(calls) = 3
    /\ Len(browser) = 1 /\ browser[1].opened

\* C33: when metadata extraction has returned an error the state of the
\* command is the one before the call: meta is None, target and pipeline
\* are the empty string.
C33_FailedExtractionLeavesState ==
    (pc = "failed" /\ steps = SubSeq(StepOrder, 1, 5)) =>
        /\ meta = None
        /\ target = EmptyString
        /\ pipeline = EmptyString

\* C34: for every value of CONCOURSE_TARGET the candidate file name of
\* find_settings_file is the candidate file name of determine_settings_file,
\* and the target-specific file find_settings_file has selected is the one
\* determine_settings_file names.
C34_SameCandidateFile ==
    (SettingsLooked /\ IsSome(envTarget)) =>
        LET t == Unwrap(envTarget)
        IN /\ TargetSettingsFile(t) = CiTargetSettingsFile(t)
           /\ "target" \in Unwrap(present) =>
                 settings_file = CiTargetSettingsFile(t)
====
